---- MODULE Spec2Model ----
(***************************************************************************)
(* Pitch-Overlay: the real-time pitch pipeline of src/main.rs.             *)
(*                                                                         *)
(* The capture callback (main.rs:259-300) runs on the audio thread and     *)
(* holds the write lock of the shared AudioState for its whole body, so it *)
(* is one atomic step here; a panic inside it leaves the mutations made so *)
(* far in place and poisons the lock.  The UI thread's update()            *)
(* (main.rs:176-385) is split into the user interactions it handles and    *)
(* the render pass that reads the AudioState.                              *)
(*                                                                         *)
(* Representation.                                                         *)
(*  - A sample is represented by its position in the stream of delivered   *)
(*    samples (the 1st, 2nd, ... sample handed to any callback), so that   *)
(*    "which samples" is observable.  The i16 value of a sample only       *)
(*    reaches the pipeline through the inference engine, whose answer is   *)
(*    an input of the callback.                                            *)
(*  - A Vec or slice of samples is stored run-length encoded: a sequence   *)
(*    of runs [first, count], each standing for the samples first,         *)
(*    first+1, ..., first+count-1, with adjoining runs merged; SampleAt    *)
(*    reads one sample of it.                                              *)
(*  - Option<T>: None is <<>>, Some(x) is <<x>>.                           *)
(*  - Frequencies are fixed-point integers in units of 1/FreqUnit Hz, with *)
(*    FreqUnit chosen so that a sum of up to STEPS_PER_DISPLAY whole-Hz    *)
(*    frequencies divides exactly by any survivor count; NaN is a value    *)
(*    outside the range that every comparison treats as unordered.         *)
(*  - Inside predict_single (crepe.rs) an f32 is its IEEE-754 bit pattern  *)
(*    read as an i32, and the arithmetic rounds to nearest-even as the     *)
(*    hardware does; powf alone is not computed (see PowfOfCents).         *)
(*  - Confidences and the confidence threshold are in tenths (0..10).      *)
(*  - StreamInstant values are whole seconds on the clock of the stream    *)
(*    that produced them; a stream's clock starts at an origin of its own  *)
(*    and each callback of the stream carries the next second.             *)
(***************************************************************************)
EXTENDS Integers, Sequences, FiniteSets, TLC

VARIABLES
    first_audio_instant,     \* AudioState.first_audio_instant : Option<StreamInstant>
    recent_audio,            \* AudioState.recent_audio : Vec<i16>
    last_valid_frequency,    \* AudioState.last_valid_frequency : Option<f32>
    pitch_points,            \* AudioState.pitch_points : Vec<[f64; 2]>
    poisoned,                \* the RwLock<AudioState> is poisoned
    current_stream,          \* PitchOverlayApp.current_stream : Option<Stream>
    current_device_index,    \* PitchOverlayApp.current_device_index : Option<usize>
    available_input_devices, \* PitchOverlayApp.available_input_devices : Vec<Device>
    settings,                \* PitchOverlayApp.settings (the fields the pipeline reads)
    ui_panicked,             \* the UI thread has panicked (the process is gone)
    stream_instant,          \* capture clock of the running stream: its next timestamp
    stream_callbacks,        \* callbacks the running stream has delivered so far
    delivered,               \* samples handed to callbacks so far (all streams)
    last_callback,           \* record of the most recent capture callback
    callbacks,               \* capture callbacks run so far
    ui_events,               \* user interactions handled so far
    rwlock,                  \* the RwLock<AudioState>: who holds it
    pc,                      \* where each thread stands in its code
    locals,                  \* the locals of each capture thread's running callback
    observed,                \* what the render pass of the UI thread has read
    committed,               \* the AudioState when a write guard was last dropped
    writers_first,           \* the platform's lock makes new readers wait for a waiting writer
    renders,                 \* render passes begun so far
    cents_mapping,           \* the lazy static CENTS_MAPPING: None until first read
    predict_pc,              \* where a call of predict_single stands
    frame,                   \* predict_single's argument audio: [i16; 1024]
    features,                \* get_activation's locals up to normalized_audio
    activation,              \* the engine's output: [f32; 360]
    decoding,                \* to_local_average_cents' locals
    returned,                \* the Prediction that predict_single returned
    predictions_made,        \* calls of predict_single begun so far
    shown                    \* what the last pass of update() read for the panel and the plot

lock_vars == <<rwlock, pc, locals, observed, committed, writers_first, renders>>

predict_vars == <<cents_mapping, predict_pc, frame, features, activation, decoding,
                  returned, predictions_made>>

app_state == <<first_audio_instant, recent_audio, last_valid_frequency, pitch_points,
               poisoned, current_stream, current_device_index, available_input_devices,
               settings, ui_panicked, stream_instant,
               stream_callbacks, delivered, last_callback, callbacks, ui_events>>

vars == <<app_state, lock_vars, predict_vars, shown>>

audio_state == <<first_audio_instant, recent_audio, last_valid_frequency, pitch_points>>

-----------------------------------------------------------------------------
(* Program constants *)

SAMPLES_PER_STEP == 1024

STEPS_PER_DISPLAY == 2

MIN_SAMPLES_PER_DISPLAY == STEPS_PER_DISPLAY * SAMPLES_PER_STEP

-----------------------------------------------------------------------------
(* Bounds of the model *)

\* Capture callbacks in one behaviour of Spec.
MaxCallbacks == 3

\* Capture callbacks in one behaviour of SpecPolicy.
MaxPolicyCallbacks == 2

\* User interactions in one behaviour.
MaxUiEvents == 2

\* Capture callbacks, of both streams together, in one behaviour of SpecLock.
MaxLockCallbacks == 2

\* Render passes in one behaviour of SpecLock.
MaxRenders == 1

\* Calls of predict_single in one behaviour of SpecPredict.
MaxPredictions == 2

-----------------------------------------------------------------------------
(* Values *)

None == <<>>

Some(x) == <<x>>

RECURSIVE Factorial(_)
Factorial(n) == IF n <= 1 THEN 1 ELSE n * Factorial(n - 1)

FreqUnit == Factorial(STEPS_PER_DISPLAY)

Hz(n) == n * FreqUnit

\* f32::NAN, by its bit pattern 0x7FC00000 (sign and payload of a NaN are not told
\* apart); no fixed-point frequency is this large.
NaN == 2143289344

IsNaN(x) == x = NaN

\* f32 comparisons: false whenever an operand is NaN.
FloatGe(a, b) == ~IsNaN(a) /\ ~IsNaN(b) /\ a >= b

FloatLe(a, b) == ~IsNaN(a) /\ ~IsNaN(b) /\ a <= b

\* u32 as f32 of a whole number of Hz.
AsF32(hz) == Hz(hz)

RECURSIVE SumSeq(_)
SumSeq(s) == IF s = <<>> THEN 0 ELSE Head(s) + SumSeq(Tail(s))

-----------------------------------------------------------------------------
(* f32 arithmetic of crepe.rs, on bit patterns (f32::to_bits as i32):      *)
(* sign bit, 8 exponent bits, 23 fraction bits.  A negative float is a     *)
(* negative integer.  Results are rounded to nearest, ties to even.        *)
(* Subnormal operands and results do not occur for the values drawn.       *)

RECURSIVE Pow2(_)
Pow2(n) == IF n <= 0 THEN 1 ELSE 2 * Pow2(n - 1)

\* The hidden bit of a normal significand: 2^23.
HiddenBit == Pow2(23)

\* f32::INFINITY
Infinity == 255 * HiddenBit

\* The sign bit is set.
IsNegative(x) == x < 0

\* The bit pattern with the sign bit cleared.
Magnitude(x) == IF x < 0 THEN (x + 2147483647) + 1 ELSE x

\* The bit pattern with the sign bit set or cleared.
WithSign(negative, magnitude) ==
    IF negative THEN (magnitude - 2147483647) - 1 ELSE magnitude

\* std::ops::Neg for f32
F32Neg(x) == IF IsNaN(x) THEN NaN ELSE WithSign(~IsNegative(x), Magnitude(x))

IsInfinite(x) == Magnitude(x) = Infinity

IsZero(x) == Magnitude(x) = 0

\* A finite magnitude is Significand * 2^Exponent.
Significand(m) ==
    IF m \div HiddenBit = 0 THEN m % HiddenBit ELSE HiddenBit + (m % HiddenBit)

Exponent(m) == IF m \div HiddenBit = 0 THEN -149 ELSE (m \div HiddenBit) - 150

\* The magnitude with significand sig in [2^23, 2^24) and exponent e.
Pack(sig, e) ==
    IF e + 150 >= 255 THEN Infinity
    ELSE IF sig < HiddenBit THEN sig
    ELSE (e + 150) * HiddenBit + (sig - HiddenBit)

\* How many low bits n has beyond a 24-bit significand.
RECURSIVE ExtraBits(_)
ExtraBits(n) == IF n < 2 * HiddenBit THEN 0 ELSE 1 + ExtraBits(n \div 2)

\* The magnitude nearest to (n + t) * 2^e, ties to even, where 0 < t < 1 when
\* sticky and t = 0 otherwise; a sticky n has at least two extra bits.
RECURSIVE RoundPack(_, _, _)
RoundPack(n, e, sticky) ==
    IF n = 0 THEN 0
    ELSE IF n < HiddenBit THEN
        (IF e > -149 THEN RoundPack(2 * n, e - 1, sticky) ELSE n)
    ELSE LET k == ExtraBits(n)
             q == n \div Pow2(k)
             r == n % Pow2(k)
             half == Pow2(k - 1)
             up == k > 0 /\ (r > half \/ (r = half /\ (sticky \/ q % 2 = 1)))
             rounded == IF up THEN q + 1 ELSE q
         IN  IF rounded = 2 * HiddenBit THEN Pack(HiddenBit, e + k + 1)
             ELSE Pack(rounded, e + k)

\* The f32 that a literal or an integer conversion yields: n * 2^e, rounded.
Lit(n, e) == RoundPack(n, e, FALSE)

\* hi + lo for finite magnitudes hi >= lo.
AddMagnitudes(hi, lo) ==
    LET d == Exponent(hi) - Exponent(lo) IN
    IF lo = 0 THEN hi
    ELSE IF d > 26 THEN hi
    ELSE IF d <= 3 THEN
        RoundPack(Significand(hi) * Pow2(d) + Significand(lo), Exponent(lo), FALSE)
    ELSE RoundPack(Significand(hi) * 8 + Significand(lo) \div Pow2(d - 3),
                   Exponent(hi) - 3,
                   Significand(lo) % Pow2(d - 3) # 0)

\* hi - lo for finite magnitudes hi >= lo.
SubMagnitudes(hi, lo) ==
    LET d == Exponent(hi) - Exponent(lo) IN
    IF lo = 0 THEN hi
    ELSE IF d > 30 THEN hi
    ELSE IF d <= 6 THEN
        RoundPack(Significand(hi) * Pow2(d) - Significand(lo), Exponent(lo), FALSE)
    ELSE LET whole == Significand(lo) \div Pow2(d - 6)
             part == Significand(lo) % Pow2(d - 6)
         IN  IF part = 0
                THEN RoundPack(Significand(hi) * 64 - whole, Exponent(hi) - 6, FALSE)
                ELSE RoundPack(Significand(hi) * 64 - whole - 1, Exponent(hi) - 6, TRUE)

\* std::ops::Add for f32
F32Add(x, y) ==
    LET a == Magnitude(x)
        b == Magnitude(y)
    IN  IF IsNaN(x) \/ IsNaN(y) THEN NaN
        ELSE IF IsInfinite(x) /\ IsInfinite(y) THEN (IF x = y THEN x ELSE NaN)
        ELSE IF IsInfinite(x) THEN x
        ELSE IF IsInfinite(y) THEN y
        ELSE IF IsNegative(x) = IsNegative(y) THEN
            WithSign(IsNegative(x), IF a >= b THEN AddMagnitudes(a, b) ELSE AddMagnitudes(b, a))
        ELSE IF a = b THEN 0
        ELSE IF a > b THEN WithSign(IsNegative(x), SubMagnitudes(a, b))
        ELSE WithSign(IsNegative(y), SubMagnitudes(b, a))

\* std::ops::Sub for f32
F32Sub(x, y) == F32Add(x, F32Neg(y))

\* a * b for finite nonzero magnitudes: the 48-bit product of the significands,
\* computed in 12-bit halves, keeps its upper 30 bits and a sticky bit.
MulMagnitudes(a, b) ==
    LET ah == Significand(a) \div 4096
        al == Significand(a) % 4096
        bh == Significand(b) \div 4096
        bl == Significand(b) % 4096
        mid == ah * bl + al * bh
        low == al * bl + (mid % 4096) * 4096
        upper == ah * bh + mid \div 4096 + low \div Pow2(24)
        lower == low % Pow2(24)
    IN  RoundPack(upper * 64 + lower \div Pow2(18),
                  Exponent(a) + Exponent(b) + 18,
                  lower % Pow2(18) # 0)

\* std::ops::Mul for f32
F32Mul(x, y) ==
    LET negative == IsNegative(x) # IsNegative(y) IN
    IF IsNaN(x) \/ IsNaN(y) THEN NaN
    ELSE IF IsInfinite(x) \/ IsInfinite(y) THEN
        (IF IsZero(x) \/ IsZero(y) THEN NaN ELSE WithSign(negative, Infinity))
    ELSE IF IsZero(x) \/ IsZero(y) THEN WithSign(negative, 0)
    ELSE WithSign(negative, MulMagnitudes(Magnitude(x), Magnitude(y)))

\* Long division: bits more quotient bits of r / d, after the quotient q so far.
RECURSIVE DivideBits(_, _, _, _)
DivideBits(r, d, bits, q) ==
    IF bits = 0 THEN <<q, r>>
    ELSE IF r >= d THEN DivideBits(2 * (r - d), d, bits - 1, 2 * q + 1)
    ELSE DivideBits(2 * r, d, bits - 1, 2 * q)

\* a / b for finite nonzero normal magnitudes: 27 quotient bits and a sticky bit.
DivMagnitudes(a, b) ==
    LET qr == DivideBits(Significand(a), Significand(b), 27, 0) IN
    RoundPack(qr[1], Exponent(a) - Exponent(b) - 26, qr[2] # 0)

\* std::ops::Div for f32
F32Div(x, y) ==
    LET negative == IsNegative(x) # IsNegative(y) IN
    IF IsNaN(x) \/ IsNaN(y) THEN NaN
    ELSE IF IsInfinite(x) THEN (IF IsInfinite(y) THEN NaN ELSE WithSign(negative, Infinity))
    ELSE IF IsInfinite(y) THEN WithSign(negative, 0)
    ELSE IF IsZero(y) THEN (IF IsZero(x) THEN NaN ELSE WithSign(negative, Infinity))
    ELSE IF IsZero(x) THEN WithSign(negative, 0)
    ELSE WithSign(negative, DivMagnitudes(Magnitude(x), Magnitude(y)))

\* Square root by digits: the root and remainder after pairs more bit pairs of the
\* radicand, whose remaining significant pairs are those of rest (width pairs wide).
RECURSIVE RootDigits(_, _, _, _, _)
RootDigits(root, rem, rest, width, pairs) ==
    IF pairs = 0 THEN <<root, rem>>
    ELSE LET pair == IF width > 0 THEN (rest \div Pow2(2 * (width - 1))) % 4 ELSE 0
             shifted == rem * 4 + pair
             trial == 4 * root + 1
         IN  IF shifted >= trial
                THEN RootDigits(2 * root + 1, shifted - trial, rest, width - 1, pairs - 1)
                ELSE RootDigits(2 * root, shifted, rest, width - 1, pairs - 1)

\* f32::sqrt
F32Sqrt(x) ==
    IF IsNaN(x) THEN NaN
    ELSE IF IsZero(x) THEN x
    ELSE IF IsNegative(x) THEN NaN
    ELSE IF IsInfinite(x) THEN x
    ELSE LET odd == Exponent(x) % 2 = 1
             sig == IF odd THEN 2 * Significand(x) ELSE Significand(x)
             e == IF odd THEN Exponent(x) - 1 ELSE Exponent(x)
             rr == RootDigits(0, 0, sig, 13, 27)
         IN  RoundPack(rr[1], (e \div 2) - 14, rr[2] # 0)

\* Where a float stands among the floats (-0.0 with +0.0); NaN stands nowhere.
Ordinal(x) == IF x >= 0 THEN x ELSE 0 - Magnitude(x)

\* x < y for f32
F32Lt(x, y) == ~IsNaN(x) /\ ~IsNaN(y) /\ Ordinal(x) < Ordinal(y)

\* f32::total_cmp(a, b) is Less or Equal: the order of the bit patterns, with every
\* negative float below every positive one and -0.0 below +0.0.
TotalLe(a, b) ==
    (IF a >= 0 THEN a ELSE -1 - Magnitude(a)) <= (IF b >= 0 THEN b ELSE -1 - Magnitude(b))

\* f32::max: the greater operand; an operand that is NaN is dropped.
F32Max(x, y) ==
    IF IsNaN(x) THEN y
    ELSE IF IsNaN(y) THEN x
    ELSE IF F32Lt(x, y) THEN y ELSE x

\* f32::clamp (min <= max, neither NaN)
F32Clamp(x, min, max) ==
    IF F32Lt(x, min) THEN min
    ELSE IF F32Lt(max, x) THEN max
    ELSE x

\* i16 as f32 and usize as f32
AsFloat(n) == IF n < 0 THEN WithSign(TRUE, Lit(0 - n, 0)) ELSE Lit(n, 0)

\* f32::is_finite
IsFinite(x) == ~IsNaN(x) /\ ~IsInfinite(x)

-----------------------------------------------------------------------------
(* predict_single and what it calls, crepe.rs.  An array [T; n] or slice of  *)
(* length n is a function on 0..n-1.                                        *)

\* values.len() of a slice
SliceLen(values) == Cardinality(DOMAIN values)

\* One step of a search for the minimum instead.
MinByStep(best, element) == IF TotalLe(element[2], best[2]) THEN element ELSE best

\* One step of Iterator::max_by on (index, value) pairs: the later element
\* replaces the maximum so far unless the maximum compares Greater.
MaxByStep(best, element) == IF TotalLe(best[2], element[2]) THEN element ELSE best

\* The closures folded over a slice: the addition of sum, the f32::max of
\* reduce and the comparison of max_by.
Call(f, acc, element) ==
    CASE f = "sum"    -> F32Add(acc, element)
      [] f = "max"    -> F32Max(acc, element)
      [] f = "max_by" -> MaxByStep(acc, element)

\* Iterator::fold over the elements from..to-1 of a slice: f is applied to the
\* accumulator and each element in turn.  The range is halved, and the right
\* half folded from the value of the left half, only to keep the evaluation
\* shallow; the order of the applications is that of the loop.
RECURSIVE Fold(_, _, _, _, _)
RECURSIVE FoldRest(_, _, _, _, _)
Fold(f, acc, values, lo, hi) ==
    IF hi <= lo THEN acc
    ELSE IF hi = lo + 1 THEN Call(f, acc, values[lo])
    ELSE FoldRest(f, Fold(f, acc, values, lo, (lo + hi) \div 2), values,
                  (lo + hi) \div 2, hi)

\* The fold of the elements mid..hi-1, once the elements before them have
\* been folded into left.
FoldRest(f, left, values, mid, hi) ==
    IF left = left THEN Fold(f, left, values, mid, hi) ELSE left

\* iter.sum::<f32>() over the elements lo..hi-1: added one by one, from 0.0.
SumRange(values, lo, hi) == Fold("sum", 0, values, lo, hi)

\* The Activation's 360 bins.
Bins == 0 .. 359

\* A table whose entries are 10 cents apart.
CentsMappingHalfSteps ==
    [x \in Bins |-> F32Add(F32Mul(AsFloat(x), Lit(5, 1)), Lit(16362532, -13))]

\* The lazily computed contents of CENTS_MAPPING; the literal 1997.3794084376191
\* is the f32 16362532 * 2^-13 and 20.0 is 5 * 2^2.
CentsMappingValue ==
    [x \in Bins |-> F32Add(F32Mul(AsFloat(x), Lit(5, 2)), Lit(16362532, -13))]

\* values.iter().enumerate()
Enumerate(values) == [i \in DOMAIN values |-> <<i, values[i]>>]

argmax(values) ==
    IF SliceLen(values) = 0 THEN None
    ELSE LET indexed == Enumerate(values)
         IN  Some(Fold("max_by", indexed[0], indexed, 1, SliceLen(values))[1])

\* A subtraction that does not stop at zero.
UnsaturatedSub(a, b) == a - b

\* usize::saturating_sub
SaturatingSub(a, b) == IF a >= b THEN a - b ELSE 0

\* Ord::min
Min(a, b) == IF a <= b THEN a ELSE b

\* A weight sum taken over the bins around the peak only.
WeightSumNearPeak(values) ==
    LET center == argmax(values)[1]
    IN  SumRange(values, SaturatingSub(center, 4), Min(center + 5, SliceLen(values)))

\* let weight_sum: f32 = activation.iter().sum();
WeightSum(values) == SumRange(values, 0, SliceLen(values))

\* The locals of a to_local_average_cents that panicked before it had cents.
Panicked(center, start, end, read) ==
    [panicked |-> TRUE, center |-> center, start |-> start, end |-> end,
     read |-> read, product_sum |-> None, weight_sum |-> None, cents |-> None]

\* crepe.rs:92  product_sum / weight_sum
Averaged(center, start, end, product_sum, weight_sum) ==
    [panicked |-> FALSE, center |-> center, start |-> Some(start),
     end |-> Some(end), read |-> start .. end - 1,
     product_sum |-> Some(product_sum), weight_sum |-> Some(weight_sum),
     cents |-> Some(F32Div(product_sum, weight_sum))]

\* crepe.rs:89-90  the two sums, the first over the bins start..end-1.
Window(values, mapping, center, start, end) ==
    IF ~(start .. end - 1 \subseteq DOMAIN values \cap DOMAIN mapping)
    THEN Panicked(center, Some(start), Some(end), start .. end - 1)
    ELSE Averaged(center, start, end,
                  SumRange([i \in start .. end - 1 |-> F32Mul(values[i], mapping[i])],
                           start, end),
                  WeightSum(values))

\* crepe.rs:86-88  the unwrap of the peak, then start and end around it.
AroundCenter(values, mapping, center) ==
    IF center = None THEN Panicked(None, None, None, {})
    ELSE Window(values, mapping, center[1], SaturatingSub(center[1], 4),
                Min(center[1] + 5, SliceLen(values)))

\* to_local_average_cents with its locals.  Indexing outside an array panics,
\* as does unwrapping None.
ToLocalAverageCents(values, mapping) == AroundCenter(values, mapping, argmax(values))

\* 10.0 * 2.0_f32.powf(cents / 1200.0).  powf is not computed: the frequency of
\* a number of cents is kept as the expression itself, and NaN cents give NaN.
PowfOfCents(cents) == IF IsNaN(cents) THEN NaN ELSE <<"10*2^(cents/1200)", cents>>

\* let confidence = activation.into_iter().reduce(f32::max).unwrap_or(0.0);
Confidence(values) ==
    IF SliceLen(values) = 0 THEN 0
    ELSE Fold("max", values[0], values, 1, SliceLen(values))

\* crepe.rs:100-105  the frequency and the Prediction, if decoding got there.
Predicted(confidence, computed) ==
    [decoding |-> computed,
     returned |-> IF computed.panicked THEN None
                  ELSE Some([frequency |-> PowfOfCents(computed.cents[1]),
                             confidence |-> confidence])]

\* predict_single from the engine's activation on: the locals of
\* to_local_average_cents and the Prediction built, if no panic came first.
PredictSingle(values, mapping) ==
    Predicted(Confidence(values), ToLocalAverageCents(values, mapping))

\* mean(values)
Mean(values) == F32Div(SumRange(values, 0, SliceLen(values)), AsFloat(SliceLen(values)))

\* std(values)
Std(values) ==
    LET mean == Mean(values)
        squares == [i \in DOMAIN values |->
                        LET diff == F32Sub(mean, values[i]) IN F32Mul(diff, diff)]
        variance == F32Div(SumRange(squares, 0, SliceLen(values)),
                           AsFloat(SliceLen(values)))
    IN  F32Sqrt(variance)

\* f32::MAX
F32_MAX == Lit(16777215, 104)

\* The literal 1e-8 as f32: 11258999 * 2^-50.
Epsilon == Lit(11258999, -50)

\* The deviation used as it is.
UnclippedStd(std) == std

\* let clipped_std = std.clamp(1e-8, f32::MAX);
ClippedStd(std) == F32Clamp(std, Epsilon, F32_MAX)

\* get_activation up to normalized_audio, with its locals.
Normalize(samples) ==
    LET floats == [i \in DOMAIN samples |-> AsFloat(samples[i])]
        mean == Mean(floats)
        std  == Std(floats)
        clipped_std == ClippedStd(std)
    IN  [mean |-> mean, std |-> std, clipped_std |-> clipped_std,
         normalized_audio |->
             [i \in DOMAIN samples |-> F32Div(F32Sub(floats[i], mean), clipped_std)]]

-----------------------------------------------------------------------------
(* Vec<i16> and &[i16], run-length encoded *)

\* v[k - 1]: the k-th sample (from 1) of a run-length encoded vector.
RECURSIVE SampleAt(_, _)
SampleAt(v, k) ==
    IF k <= Head(v).count THEN Head(v).first + k - 1
    ELSE SampleAt(Tail(v), k - Head(v).count)

\* Vec::len
RECURSIVE VecLen(_)
VecLen(v) == IF v = <<>> THEN 0 ELSE Head(v).count + VecLen(Tail(v))

\* A buffer that forgets what it held when more samples arrive.
ExtendDiscarding(v, slice) == slice

\* Vec::extend_from_slice
Extend(v, slice) ==
    IF v = <<>> THEN slice
    ELSE IF slice = <<>> THEN v
    ELSE LET last == v[Len(v)]
             next == Head(slice)
         IN  IF last.first + last.count = next.first
                THEN SubSeq(v, 1, Len(v) - 1)
                         \o <<[first |-> last.first, count |-> last.count + next.count]>>
                         \o Tail(slice)
                ELSE v \o slice

\* v extended by each of the slices in turn.
RECURSIVE ExtendAll(_, _)
ExtendAll(v, slices) ==
    IF slices = <<>> THEN v ELSE ExtendAll(Extend(v, Head(slices)), Tail(slices))

\* &v[n..]
RECURSIVE SkipSamples(_, _)
SkipSamples(v, n) ==
    IF n = 0 \/ v = <<>> THEN v
    ELSE IF Head(v).count <= n THEN SkipSamples(Tail(v), n - Head(v).count)
    ELSE <<[first |-> Head(v).first + n, count |-> Head(v).count - n]>> \o Tail(v)

\* &v[..n]
RECURSIVE TakeSamples(_, _)
TakeSamples(v, n) ==
    IF n = 0 \/ v = <<>> THEN <<>>
    ELSE IF Head(v).count <= n THEN <<Head(v)>> \o TakeSamples(Tail(v), n - Head(v).count)
    ELSE <<[first |-> Head(v).first, count |-> n]>>

\* &v[from..to], 0-based, to exclusive
Range(v, from, to) == TakeSamples(SkipSamples(v, from), to - from)

-----------------------------------------------------------------------------
(* Inputs *)

\* Sizes of the slices the audio backend hands to one callback.
DataLens == {SAMPLES_PER_STEP \div 2, SAMPLES_PER_STEP, MIN_SAMPLES_PER_DISPLAY}

\* Where the clock of a newly built stream can stand.
Origins == {0, 1}

\* Activation values: 1.0, 0.1 and 0.01 as f32.
One == Lit(1, 0)

Tenth == Lit(13421773, -27)

Hundredth == Lit(10737418, -30)

\* An activation whose only nonzero bin is k.
SingleBin(k, a) == [i \in Bins |-> IF i = k THEN a ELSE 0]

ZeroActivation == [i \in Bins |-> 0]

\* 1.0 in the bins of peaks and 0.01 in every other bin.
Peaks(peaks) == [i \in Bins |-> IF i \in peaks THEN One ELSE Hundredth]

\* What the engine can answer: every single-bin vector of two heights, the
\* all-zero vector, single peaks in the middle and near both ends, and vectors
\* whose maximum is reached in two bins.
Activations ==
    {SingleBin(k, a) : k \in Bins, a \in {One, Tenth}}
        \cup {ZeroActivation}
        \cup {Peaks({k}) : k \in {0, 3, 180, 356, 359}}
        \cup {Peaks(p) : p \in {{100, 200}, {179, 180}, {0, 359}}}

FrameIndices == 0 .. SAMPLES_PER_STEP - 1

\* The frames handed to predict_single: silence, a constant offset, square waves
\* of a small and of the largest amplitude, and a ramp.
Frames ==
    { [i \in FrameIndices |-> 0],
      [i \in FrameIndices |-> 1000],
      [i \in FrameIndices |-> IF i % 2 = 0 THEN 3 ELSE -3],
      [i \in FrameIndices |-> IF i % 2 = 0 THEN 32767 ELSE -32768],
      [i \in FrameIndices |-> 16 * i - 8192] }

\* What predict_single can return for one chunk: an in-range frequency at or
\* below the default confidence threshold, another in-range frequency, and what
\* it makes of the all-zero activation.
Predictions ==
    { [frequency |-> Hz(200), confidence |-> 5],
      [frequency |-> Hz(220), confidence |-> 5],
      [frequency |-> Hz(220), confidence |-> 3],
      PredictSingle(ZeroActivation, CentsMappingValue).returned[1] }

\* The two of them Spec draws from: one the default policy accepts, one it rejects.
CorePredictions ==
    { [frequency |-> Hz(220), confidence |-> 5],
      [frequency |-> Hz(220), confidence |-> 3] }

\* Values the user drags the sliders of the settings window to.
ThresholdValues == {0}

MinDisplayValues == {220}

MaxDisplayValues == {200}

DeviceLists == {<<"mic">>, <<"mic", "line">>}

DefaultSettings ==
    [display_range |-> <<50, 500>>, target_range |-> <<185, 300>>,
     confidence_threshold |-> 5]

\* last_callback before any callback has run.
NoCallback ==
    [outcome |-> "none", nth |-> 0, data |-> <<>>, instant |-> 0, before |-> <<>>,
     frames |-> <<>>, predictions |-> <<>>, captured |-> DefaultSettings,
     current |-> DefaultSettings, points_before |-> 0, analysed |-> <<>>]

-----------------------------------------------------------------------------
(* Threads and the lock they share *)

\* The audio threads of the two streams alive while a device is reselected.
CaptureThreads == {"stream1", "stream2"}

UiThread == "ui"

Threads == CaptureThreads \cup {UiThread}

\* RwLock::new
Unlocked == [writer |-> None, readers |-> 0]

\* The locals of a capture thread that is not in a callback.
NoLocals == [data |-> <<>>, instant |-> 0, average_pitch |-> NaN]

\* What the UI thread has read before its first render pass.
NothingObserved == [current_secs |-> None, points |-> None, last_valid_frequency |-> None]

-----------------------------------------------------------------------------
(* The capture callback, main.rs:259-300 *)

\* The oldest instead of the newest samples of the buffer.
MostRecentAudioOldest(audio) == Range(audio, 0, MIN_SAMPLES_PER_DISPLAY)

\* main.rs:275  the last MIN_SAMPLES_PER_DISPLAY samples of the buffer
MostRecentAudio(audio) ==
    Range(audio, VecLen(audio) - MIN_SAMPLES_PER_DISPLAY, VecLen(audio))

\* Windows of SAMPLES_PER_STEP samples that begin half a window apart.
ChunksOverlapping(audio) ==
    [j \in 1..(VecLen(audio) \div SAMPLES_PER_STEP) |->
        Range(audio, (j - 1) * (SAMPLES_PER_STEP \div 2),
                     (j - 1) * (SAMPLES_PER_STEP \div 2) + SAMPLES_PER_STEP)]

\* main.rs:276  chunks_exact(SAMPLES_PER_STEP)
Chunks(audio) ==
    [j \in 1..(VecLen(audio) \div SAMPLES_PER_STEP) |->
        Range(audio, (j - 1) * SAMPLES_PER_STEP, j * SAMPLES_PER_STEP)]

\* main.rs:278-281  the filter closure; s is the Settings value the closure captured
Accepted(prediction, s) ==
    /\ FloatGe(prediction.confidence, s.confidence_threshold)
    /\ FloatGe(prediction.frequency, AsF32(s.display_range[1]))
    /\ FloatLe(prediction.frequency, AsF32(s.display_range[2]))

\* main.rs:278-283  frequencies of the surviving predictions, in order
RECURSIVE SurvivingFrequencies(_, _)
SurvivingFrequencies(results, s) ==
    IF results = <<>> THEN <<>>
    ELSE (IF Accepted(Head(results), s) THEN <<Head(results).frequency>> ELSE <<>>)
             \o SurvivingFrequencies(Tail(results), s)

\* A mean over the steps of the tick instead of over the survivors.
AveragePitchOverSteps(frequencies) ==
    IF frequencies = <<>> THEN NaN
    ELSE SumSeq(frequencies) \div STEPS_PER_DISPLAY

\* main.rs:284-288
AveragePitch(frequencies) ==
    IF frequencies = <<>> THEN NaN
    ELSE SumSeq(frequencies) \div Len(frequencies)

\* main.rs:291  instant.duration_since(first).unwrap_or(Duration::ZERO), in seconds
SinceStart(instant, first) ==
    IF instant >= first THEN instant - first ELSE 0

\* main.rs:263-266
LatchedInstant(first, instant) ==
    IF first = None THEN Some(instant) ELSE first

\* The indicator overwritten by every emission, NaN or not.
NextLastValidAlways(last, average_pitch) == Some(average_pitch)

\* main.rs:293-295
NextLastValid(last, average_pitch) ==
    IF ~IsNaN(average_pitch) THEN Some(average_pitch) ELSE last

\* The slice a callback is handed: the next len samples of the delivered stream.
Slice(len) == <<[first |-> delivered + 1, count |-> len]>>

\* What is recorded of a callback: how it ended ("lock_panic", "short",
\* "inference_panic", "emitted"), which callback of its stream it was, the slice and
\* timestamp it was handed, the buffer it found, the frames it passed to
\* predict_single and the predictions it got back, the Settings value its closure
\* captured, the application's Settings when it ran, the length of the series
\* it found, and the samples that earlier callbacks passed to predict_single.
CallbackRecord(outcome, len, instant, frames, predictions) ==
    [outcome |-> outcome, nth |-> stream_callbacks + 1, data |-> Slice(len),
     instant |-> instant, before |-> recent_audio, frames |-> frames,
     predictions |-> predictions, captured |-> current_stream[1].settings,
     current |-> settings, points_before |-> Len(pitch_points),
     analysed |-> ExtendAll(last_callback.analysed, last_callback.frames)]

\* A series that keeps only its newest point.
PushPointReplacing(points, point) == <<point>>

\* main.rs:292  Vec::push
PushPoint(points, point) == Append(points, point)

\* main.rs:260  info.timestamp().callback
Delivery(len, instant) ==
    /\ ~ui_panicked
    /\ current_stream # None
    /\ instant = stream_instant
    /\ callbacks' = callbacks + 1
    /\ stream_callbacks' = stream_callbacks + 1
    /\ stream_instant' = instant + 1
    /\ delivered' = delivered + len
    /\ UNCHANGED <<current_stream, current_device_index, available_input_devices,
                   settings, ui_panicked, ui_events, lock_vars, predict_vars, shown>>

\* main.rs:262  write().unwrap() on a poisoned lock panics before anything is touched.
CallbackLockPanic ==
    \E len \in DataLens, instant \in {stream_instant} :
        /\ Delivery(len, instant)
        /\ poisoned
        /\ last_callback' = CallbackRecord("lock_panic", len, instant, <<>>, <<>>)
        /\ UNCHANGED <<audio_state, poisoned>>

\* main.rs:262-273  fewer than MIN_SAMPLES_PER_DISPLAY samples buffered: return.
CallbackShort ==
    \E len \in DataLens, instant \in {stream_instant} :
        LET audio == Extend(recent_audio, Slice(len)) IN
        /\ Delivery(len, instant)
        /\ ~poisoned
        /\ VecLen(audio) < MIN_SAMPLES_PER_DISPLAY
        /\ first_audio_instant' = LatchedInstant(first_audio_instant, instant)
        /\ recent_audio' = audio
        /\ last_callback' = CallbackRecord("short", len, instant, <<>>, <<>>)
        /\ UNCHANGED <<last_valid_frequency, pitch_points, poisoned>>

\* main.rs:262-277 with crepe.rs:79-82: the engine fails on chunk number failed_at
\* (the iterator is lazy, so the chunks before it were predicted and the ones
\* after it never are); the unwrap panics with the write guard held.
CallbackInferencePanic(engine) ==
    \E len \in DataLens, instant \in {stream_instant}, failed_at \in 1..STEPS_PER_DISPLAY :
      \E results \in [1..(failed_at - 1) -> engine] :
        LET audio == Extend(recent_audio, Slice(len))
            chunks == Chunks(MostRecentAudio(audio))
        IN
        /\ Delivery(len, instant)
        /\ ~poisoned
        /\ VecLen(audio) >= MIN_SAMPLES_PER_DISPLAY
        /\ first_audio_instant' = LatchedInstant(first_audio_instant, instant)
        /\ recent_audio' = audio
        /\ poisoned' = TRUE
        /\ last_callback' = CallbackRecord("inference_panic", len, instant,
                                           SubSeq(chunks, 1, failed_at), results)
        /\ UNCHANGED <<last_valid_frequency, pitch_points>>

\* main.rs:262-299  a display tick is analysed and one point is pushed.
CallbackEmit(engine) ==
    \E len \in DataLens, instant \in {stream_instant},
       results \in [1..STEPS_PER_DISPLAY -> engine] :
        LET audio == Extend(recent_audio, Slice(len))
            chunks == Chunks(MostRecentAudio(audio))
            captured == current_stream[1].settings   \* main.rs:255
            first == LatchedInstant(first_audio_instant, instant)
            average_pitch == AveragePitch(SurvivingFrequencies(results, captured))
        IN
        /\ Delivery(len, instant)
        /\ ~poisoned
        /\ VecLen(audio) >= MIN_SAMPLES_PER_DISPLAY
        /\ first_audio_instant' = first
        /\ recent_audio' = <<>>
        /\ pitch_points' =
               PushPoint(pitch_points, <<SinceStart(instant, first[1]), average_pitch>>)
        /\ last_valid_frequency' = NextLastValid(last_valid_frequency, average_pitch)
        /\ last_callback' = CallbackRecord("emitted", len, instant, chunks, results)
        /\ UNCHANGED poisoned


-----------------------------------------------------------------------------
(* The UI thread, main.rs:176-385 *)

UiEvent ==
    /\ ~ui_panicked
    /\ ui_events < MaxUiEvents
    /\ ui_events' = ui_events + 1
    /\ UNCHANGED <<audio_state, poisoned, ui_panicked, delivered,
                   last_callback, callbacks, lock_vars, predict_vars, shown>>

\* main.rs:182  the confidence threshold slider
SetConfidenceThreshold ==
    \E v \in ThresholdValues :
        /\ UiEvent
        /\ settings' = [settings EXCEPT !.confidence_threshold = v]
        /\ UNCHANGED <<current_stream, current_device_index, available_input_devices,
                       stream_instant, stream_callbacks>>

\* main.rs:208-213  after either display slider changed
FixedRange(range) ==
    IF range[1] >= range[2] THEN <<range[1], range[1] + 1>> ELSE range

\* main.rs:200-213  the "Min display" slider
MinDisplayTo(v) ==
    /\ UiEvent
    /\ settings' = [settings EXCEPT
                       !.display_range = FixedRange(<<v, settings.display_range[2]>>)]
    /\ UNCHANGED <<current_stream, current_device_index, available_input_devices,
                   stream_instant, stream_callbacks>>

SetMinDisplay == \E v \in MinDisplayValues : MinDisplayTo(v)

\* main.rs:203-213  the "Max display" slider
MaxDisplayTo(v) ==
    /\ UiEvent
    /\ settings' = [settings EXCEPT
                       !.display_range = FixedRange(<<settings.display_range[1], v>>)]
    /\ UNCHANGED <<current_stream, current_device_index, available_input_devices,
                   stream_instant, stream_callbacks>>

SetMaxDisplay == \E v \in MaxDisplayValues : MaxDisplayTo(v)

\* main.rs:242-245  "Disconnect audio": the stream is dropped; the AudioState is not touched.
Disconnect ==
    /\ UiEvent
    /\ current_device_index' = None
    /\ current_stream' = None
    /\ stream_instant' = 0
    /\ stream_callbacks' = 0
    /\ UNCHANGED <<available_input_devices, settings>>

\* main.rs:248-321  a device entry is clicked.  built is whether build_input_stream
\* and play both succeeded; origin is where the new stream's clock stands.
SelectDevice ==
    \E i \in 0..(Len(available_input_devices) - 1), built \in BOOLEAN, origin \in Origins :
        /\ UiEvent
        /\ IF built
              THEN /\ current_device_index' = Some(i)
                   /\ current_stream' = Some([settings |-> settings])
                   /\ stream_instant' = origin
              ELSE /\ current_device_index' = None
                   /\ current_stream' = None
                   /\ origin = 0
                   /\ stream_instant' = 0
        /\ stream_callbacks' = 0
        /\ UNCHANGED <<available_input_devices, settings>>

\* main.rs:325-327  "Reload devices"
ReloadDevices ==
    \E devices \in DeviceLists :
        /\ UiEvent
        /\ available_input_devices' = devices
        /\ UNCHANGED <<current_stream, current_device_index, settings,
                       stream_instant, stream_callbacks>>

\* main.rs:353-383  the render pass reads the AudioState: read().unwrap() panics on a
\* poisoned lock, and the panic ends the UI thread.
Render ==
    /\ ~ui_panicked
    /\ ui_panicked' = poisoned
    /\ UNCHANGED <<audio_state, poisoned, current_stream, current_device_index,
                   available_input_devices, settings, stream_instant, stream_callbacks,
                   delivered, last_callback, callbacks, ui_events, lock_vars,
                   predict_vars, shown>>

-----------------------------------------------------------------------------

\* main.rs:128-137 (AudioState::default), main.rs:152-164 (PitchOverlayApp::new)
AppInit ==
    /\ first_audio_instant = None
    /\ recent_audio = <<>>
    /\ last_valid_frequency = None
    /\ pitch_points = <<>>
    /\ poisoned = FALSE
    /\ current_stream = None
    /\ current_device_index = None
    /\ available_input_devices = <<"mic">>
    /\ settings = DefaultSettings
    /\ ui_panicked = FALSE
    /\ stream_instant = 0
    /\ stream_callbacks = 0
    /\ delivered = 0
    /\ last_callback = NoCallback
    /\ callbacks = 0
    /\ ui_events = 0
    /\ shown = None

\* main.rs:158  a new lock that nobody holds; no thread is in a callback or a
\* render pass.
LockInit ==
    /\ rwlock = Unlocked
    /\ pc = [t \in Threads |-> "idle"]
    /\ locals = [t \in CaptureThreads |-> NoLocals]
    /\ observed = NothingObserved
    /\ committed = <<None, <<>>, None, <<>>>>
    /\ renders = 0

\* No call of predict_single has begun; CENTS_MAPPING is not yet computed.
PredictInit ==
    /\ cents_mapping = None
    /\ predict_pc = "idle"
    /\ frame = None
    /\ features = None
    /\ activation = None
    /\ decoding = None
    /\ returned = None
    /\ predictions_made = 0

\* Callbacks and render passes as single steps: the lock's policy plays no part.
Init ==
    /\ AppInit
    /\ LockInit
    /\ writers_first = FALSE
    /\ PredictInit

Ui ==
    \/ SetConfidenceThreshold
    \/ SetMinDisplay
    \/ SetMaxDisplay
    \/ Disconnect
    \/ SelectDevice
    \/ ReloadDevices
    \/ Render

\* One capture callback, main.rs:259-300, by the way it ends.
Capture ==
    \/ callbacks < MaxCallbacks /\ CallbackLockPanic
    \/ callbacks < MaxCallbacks /\ CallbackShort
    \/ callbacks < MaxCallbacks /\ CallbackInferencePanic(CorePredictions)
    \/ callbacks < MaxCallbacks /\ CallbackEmit(CorePredictions)

Next ==
    \/ Capture
    \/ Ui

Spec == Init /\ [][Next]_vars

\* The same program with the engine's full range of answers, for the claims about
\* what one display tick computes.
CapturePolicy ==
    \/ callbacks < MaxPolicyCallbacks /\ CallbackLockPanic
    \/ callbacks < MaxPolicyCallbacks /\ CallbackShort
    \/ callbacks < MaxPolicyCallbacks /\ CallbackInferencePanic(Predictions)
    \/ callbacks < MaxPolicyCallbacks /\ CallbackEmit(Predictions)

NextPolicy ==
    \/ CapturePolicy
    \/ Ui

SpecPolicy == Init /\ [][NextPolicy]_vars

-----------------------------------------------------------------------------
(* The RwLock<AudioState> and the threads that take it.                    *)
(*                                                                         *)
(* While a device is reselected the new stream is built and played         *)
(* (main.rs:257, 312) before the old one is dropped by the assignment at   *)
(* main.rs:318, so the data callbacks of two streams, each on its own      *)
(* audio thread, can want the lock at once.  The UI thread takes the read  *)
(* lock three times in one render pass: main.rs:360 (guard kept to the end *)
(* of the plot closure), main.rs:370 (a temporary, with the first guard    *)
(* still held) and main.rs:374 (a temporary of the match).                 *)

\* Sizes of the slices handed to the callbacks of SpecLock.
LockDataLens == {SAMPLES_PER_STEP, MIN_SAMPLES_PER_DISPLAY}

\* A lock that lets a writer in beside the readers.
WriteLockableBesideReaders(l) == l.writer = None

\* RwLock::write returns once there is neither a writer nor a reader.
WriteLockable(l) == l.writer = None /\ l.readers = 0

\* RwLock::read returns once there is no writer and, where the platform's lock puts
\* writers first, no writer waiting (std leaves the policy to the platform).
ReadLockable(l) ==
    /\ l.writer = None
    /\ writers_first => \A t \in CaptureThreads : pc[t] # "write"

\* What every step of SpecLock leaves alone.
app_vars == <<current_stream, current_device_index, available_input_devices, settings,
              stream_instant, stream_callbacks, last_callback, ui_events>>

\* Thread t moves from one place of its code to the next.
Goes(t, from, to) ==
    /\ pc[t] = from
    /\ pc' = [pc EXCEPT ![t] = to]
    /\ UNCHANGED <<app_vars, writers_first, predict_vars, shown>>

\* main.rs:259-260  the backend calls the data callback of a stream, which at once
\* asks for the write lock (main.rs:262).
CallbackCalled ==
    \E t \in CaptureThreads, len \in LockDataLens :
        /\ callbacks < MaxLockCallbacks
        /\ ~ui_panicked
        /\ Goes(t, "idle", "write")
        /\ locals' = [locals EXCEPT ![t] =
                         [data |-> Slice(len), instant |-> callbacks, average_pitch |-> NaN]]
        /\ callbacks' = callbacks + 1
        /\ delivered' = delivered + len
        /\ UNCHANGED <<audio_state, poisoned, ui_panicked, rwlock, observed, committed,
                       renders>>

\* main.rs:262  write() returns the guard.
WriteLocked ==
    \E t \in CaptureThreads :
        /\ WriteLockable(rwlock)
        /\ ~poisoned
        /\ Goes(t, "write", "latch")
        /\ rwlock' = [rwlock EXCEPT !.writer = Some(t)]
        /\ UNCHANGED <<audio_state, poisoned, ui_panicked, locals, observed, committed,
                       renders, callbacks, delivered>>

\* main.rs:262  write() returns Err on a poisoned lock and unwrap() panics; the
\* guard inside the error is dropped by the unwinding.
WritePanics ==
    \E t \in CaptureThreads :
        /\ WriteLockable(rwlock)
        /\ poisoned
        /\ Goes(t, "write", "panicked")
        /\ UNCHANGED <<audio_state, poisoned, ui_panicked, rwlock, locals, observed,
                       committed, renders, callbacks, delivered>>

\* main.rs:263-266
Latch ==
    \E t \in CaptureThreads :
        /\ Goes(t, "latch", "extend")
        /\ first_audio_instant' = LatchedInstant(first_audio_instant, locals[t].instant)
        /\ UNCHANGED <<recent_audio, last_valid_frequency, pitch_points, poisoned,
                       ui_panicked, rwlock, locals, observed, committed, renders,
                       callbacks, delivered>>

\* main.rs:268
ExtendFromSlice ==
    \E t \in CaptureThreads :
        /\ Goes(t, "extend", "check")
        /\ recent_audio' = Extend(recent_audio, locals[t].data)
        /\ UNCHANGED <<first_audio_instant, last_valid_frequency, pitch_points, poisoned,
                       ui_panicked, rwlock, locals, observed, committed, renders,
                       callbacks, delivered>>

\* main.rs:270-273  too few samples: return, which drops the guard.
ReturnEarly ==
    \E t \in CaptureThreads :
        /\ Goes(t, "check", "idle")
        /\ VecLen(recent_audio) < MIN_SAMPLES_PER_DISPLAY
        /\ rwlock' = [rwlock EXCEPT !.writer = None]
        /\ committed' = audio_state
        /\ locals' = [locals EXCEPT ![t] = NoLocals]
        /\ UNCHANGED <<audio_state, poisoned, ui_panicked, observed, renders,
                       callbacks, delivered>>

\* main.rs:275-288  the tick's predictions and their average (a local).
Predict ==
    \E t \in CaptureThreads, results \in [1..STEPS_PER_DISPLAY -> CorePredictions] :
        /\ Goes(t, "check", "clear")
        /\ VecLen(recent_audio) >= MIN_SAMPLES_PER_DISPLAY
        /\ locals' = [locals EXCEPT ![t].average_pitch =
                         AveragePitch(SurvivingFrequencies(results, settings))]
        /\ UNCHANGED <<audio_state, poisoned, ui_panicked, rwlock, observed, committed,
                       renders, callbacks, delivered>>

\* main.rs:277 with crepe.rs:79-82  the engine fails and the unwrap panics: the
\* unwinding drops the guard and poisons the lock.
PredictPanics ==
    \E t \in CaptureThreads :
        /\ Goes(t, "check", "panicked")
        /\ VecLen(recent_audio) >= MIN_SAMPLES_PER_DISPLAY
        /\ rwlock' = [rwlock EXCEPT !.writer = None]
        /\ poisoned' = TRUE
        /\ UNCHANGED <<audio_state, ui_panicked, locals, observed, committed, renders,
                       callbacks, delivered>>

\* main.rs:289
Clear ==
    \E t \in CaptureThreads :
        /\ Goes(t, "clear", "push")
        /\ recent_audio' = <<>>
        /\ UNCHANGED <<first_audio_instant, last_valid_frequency, pitch_points, poisoned,
                       ui_panicked, rwlock, locals, observed, committed, renders,
                       callbacks, delivered>>

\* main.rs:291-292
Push ==
    \E t \in CaptureThreads :
        /\ Goes(t, "push", "last_valid")
        /\ pitch_points' =
               PushPoint(pitch_points,
                         <<SinceStart(locals[t].instant, first_audio_instant[1]),
                           locals[t].average_pitch>>)
        /\ UNCHANGED <<first_audio_instant, recent_audio, last_valid_frequency, poisoned,
                       ui_panicked, rwlock, locals, observed, committed, renders,
                       callbacks, delivered>>

\* main.rs:293-295
SetLastValid ==
    \E t \in CaptureThreads :
        /\ Goes(t, "last_valid", "return")
        /\ last_valid_frequency' =
               NextLastValid(last_valid_frequency, locals[t].average_pitch)
        /\ UNCHANGED <<first_audio_instant, recent_audio, pitch_points, poisoned,
                       ui_panicked, rwlock, locals, observed, committed, renders,
                       callbacks, delivered>>

\* main.rs:300  the callback returns, which drops the guard.
Return ==
    \E t \in CaptureThreads :
        /\ Goes(t, "return", "idle")
        /\ rwlock' = [rwlock EXCEPT !.writer = None]
        /\ committed' = audio_state
        /\ locals' = [locals EXCEPT ![t] = NoLocals]
        /\ UNCHANGED <<audio_state, poisoned, ui_panicked, observed, renders,
                       callbacks, delivered>>

\* What a step of the UI thread leaves alone.
capture_vars == <<audio_state, poisoned, locals, committed, callbacks, delivered>>

\* main.rs:353  the plot closure begins and asks for the read lock (main.rs:360).
RenderBegins ==
    /\ renders < MaxRenders
    /\ Goes(UiThread, "idle", "read360")
    /\ renders' = renders + 1
    /\ UNCHANGED <<capture_vars, ui_panicked, rwlock, observed>>

\* read() returns the guard to the UI thread standing at `at`.
ReadLocked(at, to) ==
    /\ ReadLockable(rwlock)
    /\ ~poisoned
    /\ Goes(UiThread, at, to)
    /\ rwlock' = [rwlock EXCEPT !.readers = @ + 1]
    /\ UNCHANGED <<capture_vars, ui_panicked, observed, renders>>

\* read() returns Err on a poisoned lock and unwrap() panics: the UI thread unwinds
\* and drops the guards it holds.
ReadPanics(at) ==
    /\ ReadLockable(rwlock)
    /\ poisoned
    /\ Goes(UiThread, at, "panicked")
    /\ rwlock' = [rwlock EXCEPT !.readers = 0]
    /\ ui_panicked' = TRUE
    /\ UNCHANGED <<capture_vars, observed, renders>>

\* main.rs:360
Read360 == ReadLocked("read360", "last") \/ ReadPanics("read360")

\* main.rs:361-365  pitch_points.last(); then main.rs:370 asks for the read lock
\* again while audio_state, the guard of main.rs:360, is still alive.
ReadLastPoint ==
    /\ Goes(UiThread, "last", "read370")
    /\ observed' = [observed EXCEPT !.current_secs =
                       IF pitch_points = <<>> THEN Some(10)
                       ELSE Some(pitch_points[Len(pitch_points)][1])]
    /\ UNCHANGED <<capture_vars, ui_panicked, rwlock, renders>>

\* main.rs:370
Read370 == ReadLocked("read370", "clone") \/ ReadPanics("read370")

\* main.rs:370  pitch_points.clone(); the temporary guard is dropped at the end of
\* the statement.
ClonePoints ==
    /\ Goes(UiThread, "clone", "end_plot")
    /\ observed' = [observed EXCEPT !.points = Some(pitch_points)]
    /\ rwlock' = [rwlock EXCEPT !.readers = @ - 1]
    /\ UNCHANGED <<capture_vars, ui_panicked, renders>>

\* main.rs:371  the closure ends and drops audio_state; main.rs:374 asks for the
\* read lock.
EndPlot ==
    /\ Goes(UiThread, "end_plot", "read374")
    /\ rwlock' = [rwlock EXCEPT !.readers = @ - 1]
    /\ UNCHANGED <<capture_vars, ui_panicked, observed, renders>>

\* main.rs:374
Read374 == ReadLocked("read374", "label") \/ ReadPanics("read374")

\* main.rs:374-380  last_valid_frequency is read; the guard is dropped at the end
\* of the match.
ReadLabel ==
    /\ Goes(UiThread, "label", "idle")
    /\ observed' = [observed EXCEPT !.last_valid_frequency = Some(last_valid_frequency)]
    /\ rwlock' = [rwlock EXCEPT !.readers = @ - 1]
    /\ UNCHANGED <<capture_vars, ui_panicked, renders>>

\* Any platform's lock policy.
InitLock ==
    /\ AppInit
    /\ LockInit
    /\ writers_first \in BOOLEAN
    /\ PredictInit

NextLock ==
    \/ CallbackCalled
    \/ WriteLocked
    \/ WritePanics
    \/ Latch
    \/ ExtendFromSlice
    \/ ReturnEarly
    \/ Predict
    \/ PredictPanics
    \/ Clear
    \/ Push
    \/ SetLastValid
    \/ Return
    \/ RenderBegins
    \/ Read360
    \/ ReadLastPoint
    \/ Read370
    \/ ClonePoints
    \/ EndPlot
    \/ Read374
    \/ ReadLabel

SpecLock == InitLock /\ [][NextLock]_vars

-----------------------------------------------------------------------------
(* One call of predict_single after another, crepe.rs:96-106, on one thread *)

\* crepe.rs:96  predict_single is called with a frame.
PredictSingleCalled ==
    /\ predict_pc = "idle"
    /\ predictions_made < MaxPredictions
    /\ \E samples \in Frames : frame' = Some(samples)
    /\ features' = None
    /\ activation' = None
    /\ decoding' = None
    /\ returned' = None
    /\ predict_pc' = "get_activation"
    /\ predictions_made' = predictions_made + 1
    /\ UNCHANGED <<cents_mapping, app_state, lock_vars, shown>>

\* crepe.rs:68-76
NormalizeAudio ==
    /\ predict_pc = "get_activation"
    /\ features' = Some(Normalize(frame[1]))
    /\ predict_pc' = "run"
    /\ UNCHANGED <<cents_mapping, frame, activation, decoding, returned,
                   predictions_made, app_state, lock_vars, shown>>

\* crepe.rs:78-82  the engine answers with an activation; the audio and its
\* normalized copy end with get_activation.
ModelRuns ==
    /\ predict_pc = "run"
    /\ \E output \in Activations : activation' = Some(output)
    /\ frame' = None
    /\ features' = None
    /\ predict_pc' = "decode"
    /\ UNCHANGED <<cents_mapping, decoding, returned, predictions_made, app_state,
                   lock_vars, shown>>

\* crepe.rs:78-82  one of the unwraps on the engine's results panics.
ModelPanics ==
    /\ predict_pc = "run"
    /\ predict_pc' = "panicked"
    /\ UNCHANGED <<cents_mapping, frame, features, activation, decoding, returned,
                   predictions_made, app_state, lock_vars, shown>>

\* crepe.rs:98-105  confidence, cents and frequency.  The first read of
\* CENTS_MAPPING (crepe.rs:89) computes it; later reads find it computed.
Decode ==
    /\ predict_pc = "decode"
    /\ cents_mapping' = IF cents_mapping = None THEN Some(CentsMappingValue)
                        ELSE cents_mapping
    /\ \E result \in {PredictSingle(activation[1], cents_mapping'[1])} :
           /\ decoding' = Some(result.decoding)
           /\ returned' = result.returned
           /\ predict_pc' = IF result.returned = None THEN "panicked" ELSE "idle"
    /\ UNCHANGED <<frame, features, activation, predictions_made, app_state,
                   lock_vars, shown>>

NextPredict ==
    \/ PredictSingleCalled
    \/ NormalizeAudio
    \/ ModelRuns
    \/ ModelPanics
    \/ Decode

SpecPredict == Init /\ [][NextPredict]_vars

-----------------------------------------------------------------------------
(* The settings and the device choice over the passes of update(),          *)
(* main.rs:176-385, from what main() found stored and plugged in            *)

\* Ends and a middle of the "Min ..." sliders' range 0..=499, main.rs:200, 216.
MinSliderValues == {0, 250, 499}

\* Ends and a middle of the "Max ..." sliders' range 1..=500, main.rs:203, 219.
MaxSliderValues == {1, 250, 500}

\* What main() finds under SETTINGS_STORAGE_KEY: nothing that parses (None), or
\* a record that parses; any two u32 parse as a range.
StoredRecords ==
    { None,
      Some([DefaultSettings EXCEPT !.display_range = <<100, 400>>,
                                   !.target_range = <<150, 250>>]),
      Some([DefaultSettings EXCEPT !.target_range = <<300, 185>>]),
      Some([DefaultSettings EXCEPT !.target_range = <<200, 200>>]),
      Some([DefaultSettings EXCEPT !.display_range = <<0, 1000>>]) }

\* main.rs:60-68  stored_settings
StoredSettings(stored) == IF stored = None THEN DefaultSettings ELSE stored[1]

\* A u32 as its two 16-bit halves.
U32(n) == <<n \div 65536, n % 65536>>

\* a - b in u32 where overflow is not checked: 2^32 - (b - a) when b > a.
WrappingSubU32(a, b) ==
    IF a >= b THEN U32(a - b)
    ELSE <<65535 - ((b - a - 1) \div 65536), 65535 - ((b - a - 1) % 65536)>>

\* main.rs:166-172  current_device; indexing a Vec out of bounds panics.
CurrentDevice(index, devices) ==
    IF index = None THEN [panicked |-> FALSE, device |-> None]
    ELSE IF index[1] < Len(devices)
    THEN [panicked |-> FALSE, device |-> Some(devices[index[1] + 1])]
    ELSE [panicked |-> TRUE, device |-> None]

\* main.rs:233  current_device_name; a device is modelled by its name.
CurrentDeviceName(device) == IF device = None THEN "Audio disconnected" ELSE device[1]

\* main.rs:226-228  after either target slider changed
SetTargetRange(range) ==
    /\ UiEvent
    /\ settings' = [settings EXCEPT !.target_range = FixedRange(range)]
    /\ UNCHANGED <<current_stream, current_device_index, available_input_devices,
                   stream_instant, stream_callbacks>>

\* main.rs:216-228  the "Min target" slider
SetMinTarget == \E v \in MinSliderValues : SetTargetRange(<<v, settings.target_range[2]>>)

\* main.rs:219-228  the "Max target" slider
SetMaxTarget == \E v \in MaxSliderValues : SetTargetRange(<<settings.target_range[1], v>>)

\* main.rs:200-213  the display sliders over their whole range
SlideMinDisplay == \E v \in MinSliderValues : MinDisplayTo(v)

SlideMaxDisplay == \E v \in MaxSliderValues : MaxDisplayTo(v)

\* main.rs:233, 354, 360  a pass of update(): the name of the current device
\* for the combo box, then the width of the target band for the plot.  The
\* subtraction of u32 panics where the build checks overflow and wraps where
\* it does not; reading a poisoned lock panics.
Update ==
    /\ ~ui_panicked
    /\ \E overflow_checks \in BOOLEAN, device \in {CurrentDevice(current_device_index,
                                                                  available_input_devices)} :
          IF \/ device.panicked
             \/ overflow_checks /\ settings.target_range[2] < settings.target_range[1]
             \/ poisoned
          THEN /\ ui_panicked' = TRUE
               /\ UNCHANGED shown
          ELSE /\ ui_panicked' = FALSE
               /\ shown' = Some([current_device_name |-> CurrentDeviceName(device.device),
                                  target_range_width |->
                                      WrappingSubU32(settings.target_range[2],
                                                     settings.target_range[1])])
    /\ UNCHANGED <<audio_state, poisoned, current_stream, current_device_index,
                   available_input_devices, settings, stream_instant, stream_callbacks,
                   delivered, last_callback, callbacks, ui_events, lock_vars,
                   predict_vars>>

\* main.rs:45-48, 60-68, 152-164  the application as main() builds it: the
\* devices the host lists and the settings found stored.
InitUi ==
    /\ first_audio_instant = None
    /\ recent_audio = <<>>
    /\ last_valid_frequency = None
    /\ pitch_points = <<>>
    /\ poisoned = FALSE
    /\ current_stream = None
    /\ current_device_index = None
    /\ available_input_devices \in DeviceLists
    /\ \E stored \in StoredRecords : settings = StoredSettings(stored)
    /\ ui_panicked = FALSE
    /\ stream_instant = 0
    /\ stream_callbacks = 0
    /\ delivered = 0
    /\ last_callback = NoCallback
    /\ callbacks = 0
    /\ ui_events = 0
    /\ shown = None
    /\ LockInit
    /\ writers_first = FALSE
    /\ PredictInit

NextUi ==
    \/ SlideMinDisplay
    \/ SlideMaxDisplay
    \/ SetMinTarget
    \/ SetMaxTarget
    \/ Disconnect
    \/ SelectDevice
    \/ ReloadDevices
    \/ Update

SpecUi == InitUi /\ [][NextUi]_vars

-----------------------------------------------------------------------------
(* Reading the record of the last callback *)

\* The positions (from 1) at which the runs of v begin.
RunStarts(v) == {1 + VecLen(SubSeq(v, 1, j - 1)) : j \in 1..Len(v)}

\* w holds exactly the samples v[from], ..., v[from + len(w) - 1] (from counted
\* from 0), in order.  Between two neighbouring run starts of w or of v both
\* vectors advance by one sample per position, so agreeing at every run start is
\* agreeing everywhere.
IsWindowOf(w, v, from) ==
    LET n == VecLen(w)
        probes == RunStarts(w) \cup
                  {t - from : t \in {u \in RunStarts(v) : u > from /\ u <= from + n}}
    IN  /\ from >= 0
        /\ from + n <= VecLen(v)
        /\ \A k \in probes : SampleAt(w, k) = SampleAt(v, from + k)

\* w and v hold the same samples in the same order.
SameSamples(w, v) == VecLen(w) = VecLen(v) /\ IsWindowOf(w, v, 0)

\* The last callback got the lock and ran its body.
Ran == last_callback.outcome \in {"short", "inference_panic", "emitted"}

\* The last callback ran to its end.
Returned == last_callback.outcome \in {"short", "emitted"}

\* The buffer of the last callback after line 268: what it found, then what it was handed.
Appended == last_callback.before \o last_callback.data

\* Points the last callback pushed (the series changes in callbacks only).
PointsPushed == Len(pitch_points) - last_callback.points_before

\* The point the last callback pushed, when it pushed one.
EmittedPoint == pitch_points[last_callback.points_before + 1]

-----------------------------------------------------------------------------
(* C1 *)

-----------------------------------------------------------------------------
(* C2 *)

-----------------------------------------------------------------------------
(* C3 *)

\* C3 as stated: when a new session is about to deliver its first callback, the
\* StreamClock is unset and the residual buffer is empty.
C3_SessionStartsClean ==
    (current_stream # None /\ stream_callbacks = 0) =>
        /\ first_audio_instant = None
        /\ recent_audio = <<>>

-----------------------------------------------------------------------------
(* C4 *)

\* C4 as stated: an engine failure costs the frame and nothing else: no callback
\* panics, the lock is never poisoned and the render pass never fails.
C4_EngineFailureDropsFrame ==
    /\ last_callback.outcome \notin {"inference_panic", "lock_panic"}
    /\ ~poisoned
    /\ ~ui_panicked

-----------------------------------------------------------------------------
(* C5 *)

\* C5 as stated: elapsed_seconds never decreases along the series.
C5_ElapsedMonotonic ==
    \A k \in 1..(Len(pitch_points) - 1) : pitch_points[k][1] <= pitch_points[k + 1][1]

-----------------------------------------------------------------------------
(* C6 *)

\* C6 as stated, first half: after the first callback of a session the StreamClock
\* is that callback's capture timestamp.
C6_LatchedPerSession ==
    (Ran /\ last_callback.nth = 1) =>
        first_audio_instant = Some(last_callback.instant)

-----------------------------------------------------------------------------
(* C7 *)

\* The step is a capture callback that got all STEPS_PER_DISPLAY predictions of a
\* display tick.
AnalysesTick ==
    /\ callbacks' = callbacks + 1
    /\ Len(last_callback'.predictions) = STEPS_PER_DISPLAY

\* C7: the series is append-only with one point per emission.  A callback that
\* completes the analysis of a display tick adds exactly one point at the end; every
\* other step (a callback that returns early or panics, a render pass, a
\* disconnect, a reselect, a settings change, a device reload) leaves the series
\* as it is.  No step removes, reorders or changes a point.
C7_AppendOnly ==
    [][ IF AnalysesTick
           THEN /\ Len(pitch_points') = Len(pitch_points) + 1
                /\ SubSeq(pitch_points', 1, Len(pitch_points)) = pitch_points
           ELSE pitch_points' = pitch_points ]_vars

\* Two ticks were analysed, and then the stream was dropped.
C7_Witness ==
    /\ Len(pitch_points) >= 2
    /\ current_stream = None
    /\ ~ui_panicked

-----------------------------------------------------------------------------
(* C8 *)

RECURSIVE SumOver(_, _)
SumOver(S, f) ==
    IF S = {} THEN 0
    ELSE LET x == CHOOSE y \in S : TRUE
         IN  f[x] + SumOver(S \ {x}, f)

\* The steps of the last tick whose prediction the policy p accepts: confidence at
\* least the threshold, frequency a number within the closed range.
Survivors(p) ==
    {j \in 1..Len(last_callback.predictions) :
        LET q == last_callback.predictions[j]
        IN  /\ q.confidence >= p.confidence_threshold
            /\ ~IsNaN(q.frequency)
            /\ p.display_range[1] * FreqUnit <= q.frequency
            /\ q.frequency <= p.display_range[2] * FreqUnit}

\* value is what a tick emits under policy p: the arithmetic mean of the surviving
\* frequencies (their sum split evenly over the survivors), NaN without survivors.
IsMeanOfSurvivors(value, p) ==
    LET frequency == [j \in 1..Len(last_callback.predictions) |->
                          last_callback.predictions[j].frequency]
    IN  IF Survivors(p) = {}
           THEN IsNaN(value)
           ELSE /\ ~IsNaN(value)
                /\ value * Cardinality(Survivors(p)) = SumOver(Survivors(p), frequency)

\* C8: a display tick takes N = STEPS_PER_DISPLAY predictions and emits the mean of
\* the frequencies of those with confidence >= confidence_threshold and
\* min_hz <= frequency <= max_hz, where the policy is the one the callback filters
\* with; the divisor is the number of survivors, and the value is NaN without one.
C8_MeanOfSurvivors ==
    last_callback.outcome = "emitted" =>
        /\ Len(last_callback.predictions) = STEPS_PER_DISPLAY
        /\ IsMeanOfSurvivors(EmittedPoint[2], last_callback.captured)

\* Predictions of 200 Hz and 220 Hz, both accepted, emitted 210 Hz.
C8_Witness ==
    /\ last_callback.outcome = "emitted"
    /\ {last_callback.predictions[j].frequency : j \in Survivors(last_callback.captured)}
           = {Hz(200), Hz(220)}
    /\ EmittedPoint[2] = Hz(210)

-----------------------------------------------------------------------------
(* C9 *)

\* The places of the series that hold a value.
ValidPoints == {k \in 1..Len(pitch_points) : ~IsNaN(pitch_points[k][2])}

Latest(S) == CHOOSE k \in S : \A j \in S : j <= k

\* C9: the last known good frequency is the value of the most recent non-NaN point
\* of the series, and is absent exactly when the series has no such point.
C9_LastValidIsLatest ==
    IF ValidPoints = {}
       THEN last_valid_frequency = None
       ELSE last_valid_frequency = Some(pitch_points[Latest(ValidPoints)][2])

\* A NaN emission after a valid one left the indicator on the valid value.
C9_Witness ==
    /\ Len(pitch_points) = 2
    /\ ~IsNaN(pitch_points[1][2])
    /\ IsNaN(pitch_points[2][2])
    /\ last_valid_frequency = Some(pitch_points[1][2])

-----------------------------------------------------------------------------
(* C10 *)

\* C10 as stated: a tick is filtered with the policy in force when its callback
\* starts.
C10_CurrentPolicyApplies ==
    last_callback.outcome = "emitted" =>
        IsMeanOfSurvivors(EmittedPoint[2], last_callback.current)

-----------------------------------------------------------------------------
(* C11 *)

\* The capture threads that hold the write guard: they stand between write()
\* returning and the guard being dropped.
Writing ==
    {t \in CaptureThreads :
        pc[t] \in {"latch", "extend", "check", "clear", "push", "last_valid", "return"}}

\* The UI thread holds a read guard.
Reading == pc[UiThread] \in {"last", "read370", "clone", "end_plot", "label"}

\* C11: the residual buffer, the StreamClock, the series and the last-known-good
\* frequency are guarded as one unit.  Never do two callbacks hold the write guard
\* together, also when the callbacks of two streams overlap; the bundle differs
\* from what the last returning callback left only while a callback holds the
\* write guard (or after one panicked, which poisons the lock); and while the UI
\* thread holds a read guard no callback holds the write guard and the bundle is
\* what the last returning callback left, so that the render pass sees no partly
\* applied callback: the series it copies for the line is the series whose last
\* point set the plot bounds.
C11_GuardedAsOneUnit ==
    /\ Cardinality(Writing) <= 1
    /\ audio_state # committed => (Writing # {} \/ poisoned)
    /\ Reading =>
           /\ Writing = {}
           /\ audio_state = committed
    /\ pc[UiThread] = "end_plot" =>
           /\ observed.points = Some(committed[4])
           /\ observed.current_secs =
                  (IF committed[4] = <<>> THEN Some(10)
                   ELSE Some(committed[4][Len(committed[4])][1]))
    /\ pc[UiThread] = "label" => committed[3] = last_valid_frequency

\* The UI thread has copied a series with a point in it and still holds a read
\* guard, while the callback of one stream waits for the write lock.
C11_Witness ==
    /\ pc[UiThread] = "end_plot"
    /\ observed.points # Some(<<>>)
    /\ \E t \in CaptureThreads : pc[t] = "write"

-----------------------------------------------------------------------------
(* C12 *)

\* C12: the peak bin that the decoder centres its window on is the lowest index
\* among the bins of maximal activation: no bin holds more than the centre,
\* and every bin before the centre holds less.
C12_PeakIsLowestMaximum ==
    (decoding # None /\ ~decoding[1].panicked) =>
        LET center == decoding[1].center
            values == activation[1]
        IN  /\ \A i \in Bins : ~F32Lt(values[center], values[i])
            /\ \A i \in Bins : i < center => F32Lt(values[i], values[center])

-----------------------------------------------------------------------------
(* C13 *)

\* C13: the cents value is the sum of activation * cents_mapping over the bins
\* within four of the peak (a bin of maximal activation), divided by the sum of
\* the activation over all 360 bins, not over the window; the frequency
\* returned is 10 * 2^(cents / 1200) of that value.
C13_LocalAverageCents ==
    (decoding # None /\ returned # None) =>
        LET values  == activation[1]
            mapping == cents_mapping[1]
            center  == decoding[1].center
            near    == {i \in Bins : center - 4 <= i /\ i <= center + 4}
            lowest  == CHOOSE i \in near : \A j \in near : i <= j
            highest == CHOOSE i \in near : \A j \in near : j <= i
            weighted == [i \in near |-> F32Mul(values[i], mapping[i])]
            cents   == F32Div(SumRange(weighted, lowest, highest + 1),
                              SumRange(values, 0, 360))
        IN  /\ \A i \in Bins : ~F32Lt(values[center], values[i])
            /\ decoding[1].cents = Some(cents)
            /\ IF IsNaN(cents) THEN IsNaN(returned[1].frequency)
               ELSE returned[1].frequency = <<"10*2^(cents/1200)", cents>>

\* 1.0 in bin 180 and 0.01 everywhere else: the numerator runs over bins
\* 176..184.
C13_Witness ==
    /\ activation = Some(Peaks({180}))
    /\ returned # None
    /\ decoding[1].read = 176 .. 184

-----------------------------------------------------------------------------
(* C14 *)

\* C14: for every peak index the decoder's window is
\* [max(0, center - 4), min(360, center + 5)), which is [0, 5) for centre 0 and
\* [355, 360) for centre 359; every index it reads is one of the 360 bins, the
\* index arithmetic stays within 0..360, and the decoder does not panic.
C14_WindowClamped ==
    decoding # None =>
        LET center == decoding[1].center
            start  == IF center - 4 > 0 THEN center - 4 ELSE 0
            end    == IF center + 5 < 360 THEN center + 5 ELSE 360
        IN  /\ ~decoding[1].panicked
            /\ center \in Bins
            /\ decoding[1].start = Some(start)
            /\ decoding[1].end = Some(end)
            /\ decoding[1].read = {i \in Bins : start <= i /\ i < end}
            /\ decoding[1].read # {}
            /\ center = 0 => decoding[1].read = 0 .. 4
            /\ center = 359 => decoding[1].read = 355 .. 359

\* The peak is in bin 0 and the window has been cut to bins 0..4.
C14_Witness ==
    /\ decoding # None
    /\ decoding[1].center = 0
    /\ decoding[1].read = 0 .. 4
    /\ returned # None

-----------------------------------------------------------------------------
(* C15 *)

-----------------------------------------------------------------------------
(* C16 *)

\* What predict_single computes for the all-zero activation.
C16_Degenerate == PredictSingle(ZeroActivation, CentsMappingValue)

\* C16: for the all-zero activation the decoder does not panic and returns a
\* NaN frequency with confidence 0.  Under every acceptance policy, threshold 0
\* included, such a prediction is not averaged (a tick of nothing else emits
\* NaN, and any other tick emits the mean of its accepted predictions, none of
\* them NaN) and the last-known-good frequency is never NaN.
C16_DegenerateIsNeverCounted ==
    LET degenerate == C16_Degenerate
    IN  /\ degenerate.returned # None
        /\ ~degenerate.decoding.panicked
        /\ IsNaN(degenerate.returned[1].frequency)
        /\ degenerate.returned[1].confidence = 0
        /\ last_valid_frequency # Some(NaN)
        /\ last_callback.outcome = "emitted" =>
              /\ IsMeanOfSurvivors(EmittedPoint[2], last_callback.captured)
              /\ (\A j \in 1..Len(last_callback.predictions) :
                      last_callback.predictions[j] = degenerate.returned[1])
                  => IsNaN(EmittedPoint[2])
              /\ \A j \in Survivors(last_callback.captured) :
                      last_callback.predictions[j] # degenerate.returned[1]

\* A tick of degenerate predictions only has gone through a stream whose
\* policy has threshold 0, and nothing valid was known before or after.
C16_Witness ==
    /\ last_callback.outcome = "emitted"
    /\ last_callback.captured.confidence_threshold = 0
    /\ \A j \in 1..Len(last_callback.predictions) :
          /\ IsNaN(last_callback.predictions[j].frequency)
          /\ last_callback.predictions[j].confidence = 0
    /\ IsNaN(EmittedPoint[2])
    /\ last_valid_frequency = None

-----------------------------------------------------------------------------
(* C17 *)

\* C17 as stated, for a table of f32: once computed the table has 360 entries,
\* entry i is the f32 nearest to 1997.3794084376191 + 20 * i, the entries are
\* strictly increasing and every entry is 20 above the one before.  (In units
\* of 2^-13 the real number is 16362532 + 163840 * i + t with 0.11 < t < 0.12.)
C17_EvenlySpacedBy20 ==
    cents_mapping # None =>
        LET mapping == cents_mapping[1]
            InUnits(x) == Significand(x) * Pow2(Exponent(x) + 13)
            Off(i) == InUnits(mapping[i]) - (16362532 + 163840 * i)
        IN  /\ DOMAIN mapping = 0 .. 359
            /\ \A i \in 0 .. 359 :
                  /\ 100 * Off(i) - 11 <= 50 * Pow2(Exponent(mapping[i]) + 13)
                  /\ 12 - 100 * Off(i) <= 50 * Pow2(Exponent(mapping[i]) + 13)
            /\ \A i \in 0 .. 358 :
                  /\ F32Lt(mapping[i], mapping[i + 1])
                  /\ F32Sub(mapping[i + 1], mapping[i]) = Lit(20, 0)

\* The table that the first read computes: its entries, their distance from
\* the real numbers, and their spacing.
C17_TableAsComputed ==
    LET mapping == CentsMappingValue
        InUnits(x) == Significand(x) * Pow2(Exponent(x) + 13)
        Off(i) == InUnits(mapping[i]) - (16362532 + 163840 * i)
        Abs(n) == IF n < 0 THEN 0 - n ELSE n
    IN  /\ DOMAIN mapping = 0 .. 359
        /\ \A i \in 0 .. 359 :
              /\ mapping[i] = F32Add(F32Mul(AsFloat(i), Lit(20, 0)),
                                     Lit(16362532, -13))
              /\ Abs(Off(i)) <= InUnits(mapping[i]) \div Pow2(23)
              /\ Abs(Off(i) - 1) <= InUnits(mapping[i]) \div Pow2(23)
        /\ mapping[0] = Lit(16362532, -13)
        /\ mapping[1] = Lit(16526372, -13)
        /\ mapping[358] = Lit(9377156, -10)
        /\ mapping[359] = Lit(9397636, -10)
        /\ \A i \in 0 .. 358 :
              /\ F32Lt(mapping[i], mapping[i + 1])
              /\ F32Sub(mapping[i + 1], mapping[i])
                    = IF i = 309 THEN Lit(40959, -11) ELSE Lit(20, 0)

\* The contents of C17's amended statement: a table in memory is the table
\* that the first read computes.
C17_Contents ==
    cents_mapping # None =>
        /\ cents_mapping[1] = CentsMappingValue
        /\ C17_TableAsComputed

\* C17, amended: once computed the table has 360 entries; entry i is
\* i as f32 * 20.0 + 1997.3794084376191 evaluated in f32, which is within a
\* relative 2^-23 of the real number 1997.3794084376191 + 20 * i (entries 0, 1,
\* 358, 359 are 1997.37939453125, 2017.37939453125, 9157.37890625 and
\* 9177.37890625); the entries are strictly increasing and each is 20 above the
\* one before, except entry 310, the first above 8192, which is 19.99951171875
\* above entry 309; and a table once computed is never changed.
C17_ComputedOnceAndSpaced ==
    /\ []C17_Contents
    /\ [][cents_mapping # None => cents_mapping' = cents_mapping]_vars

\* The table was computed by an earlier call and a second call has read it.
C17_Witness ==
    /\ cents_mapping # None
    /\ predictions_made = 2
    /\ returned # None

-----------------------------------------------------------------------------
(* C18 *)

\* C18: over any sequence of callbacks every frame formed is passed to
\* predict_single once (a tick that returns has one prediction per frame, and in
\* a tick that panics only the last frame passed has none), every frame is
\* SAMPLES_PER_STEP long, no delivered sample lies in two frames of a callback,
\* and no sample of a frame was in a frame of an earlier callback.
C18_FramesConsumedOnce ==
    LET frames == last_callback.frames
        Overlap(v, w) ==
            \E j \in 1..Len(v), k \in 1..Len(w) :
                /\ v[j].first < w[k].first + w[k].count
                /\ w[k].first < v[j].first + v[j].count
    IN  /\ \A j \in 1..Len(frames) : VecLen(frames[j]) = SAMPLES_PER_STEP
        /\ \A j, k \in 1..Len(frames) : j < k => ~Overlap(frames[j], frames[k])
        /\ \A j \in 1..Len(frames) : ~Overlap(frames[j], last_callback.analysed)
        /\ last_callback.outcome = "emitted"
              => /\ Len(last_callback.predictions) = Len(frames)
                 /\ LET audio == Extend(last_callback.before, last_callback.data)
                    IN  frames = Chunks(Range(audio,
                                              VecLen(audio) - MIN_SAMPLES_PER_DISPLAY,
                                              VecLen(audio)))
        /\ last_callback.outcome = "inference_panic"
              => Len(last_callback.predictions) = Len(frames) - 1
        /\ last_callback.outcome \in {"none", "lock_panic", "short"} => frames = <<>>

\* A second display tick has been analysed after samples of an earlier one.
C18_Witness ==
    /\ last_callback.outcome = "emitted"
    /\ last_callback.analysed # <<>>
    /\ Len(last_callback.frames) = STEPS_PER_DISPLAY

-----------------------------------------------------------------------------
(* C19 *)

\* C19: for every frame the divisor of the normalizer is at least 1e-8, hence
\* positive and not NaN, the clamp's bounds are in order (it cannot panic) and
\* a feature is produced for each of the 1024 samples; for the silent frame
\* mean and deviation are 0, the divisor is 1e-8 and every feature is 0, so
\* none is NaN or infinite.
C19_SilentFrameNormalized ==
    features # None =>
        LET samples == frame[1]
            divisor == features[1].clipped_std
            normalized_audio == features[1].normalized_audio
        IN  /\ F32Lt(Epsilon, F32_MAX)
            /\ F32Lt(0, Epsilon)
            /\ ~IsNaN(divisor)
            /\ ~F32Lt(divisor, Epsilon)
            /\ DOMAIN normalized_audio = 0 .. SAMPLES_PER_STEP - 1
            /\ (\A i \in DOMAIN samples : samples[i] = 0) =>
                    /\ divisor = Epsilon
                    /\ \A i \in DOMAIN normalized_audio :
                          /\ IsFinite(normalized_audio[i])
                          /\ IsZero(normalized_audio[i])

\* The silent frame has been normalized with the divisor at its floor.
C19_Witness ==
    /\ features # None
    /\ \A i \in DOMAIN frame[1] : frame[1][i] = 0
    /\ IsZero(features[1].std)
    /\ features[1].clipped_std = Epsilon

-----------------------------------------------------------------------------
(* C20 *)

\* C20: the UI thread never asks for the read lock while it holds a read
\* guard, and under no lock policy do the UI thread and a capture thread wait
\* for each other: the UI thread for a read that a waiting writer holds up,
\* the capture thread for the write that the UI thread's guard holds up.
C20_NoDeadlock ==
    LET asking == pc[UiThread] \in {"read360", "read370", "read374"}
    IN  /\ ~(asking /\ rwlock.readers > 0)
        /\ ~(/\ asking
             /\ ~ReadLockable(rwlock)
             /\ rwlock.writer = None
             /\ \E t \in CaptureThreads : pc[t] = "write" /\ ~WriteLockable(rwlock))
-----------------------------------------------------------------------------
(* C21 *)

\* C21: after any sequence of device selections, disconnects and reloads, a
\* current_device_index of Some(i) has i within available_input_devices, so
\* that current_device() does not index out of bounds, also after a reload
\* that lists fewer devices than before.
C21_IndexAlwaysValid ==
    /\ current_device_index # None =>
          current_device_index[1] \in 0 .. Len(available_input_devices) - 1
    /\ ~CurrentDevice(current_device_index, available_input_devices).panicked

-----------------------------------------------------------------------------
(* C22 *)

\* C22: in every reachable state, from the default settings or from any
\* stored settings record that parses, and after any slider edits, both
\* display_range and target_range have min < max <= 500, and the u32
\* subtraction target_range.1 - target_range.0 made for the plot has not
\* underflowed: the width it gave is at most 500.
C22_RangesOrdered ==
    /\ settings.display_range[1] < settings.display_range[2]
    /\ settings.display_range[2] <= 500
    /\ settings.target_range[1] < settings.target_range[2]
    /\ settings.target_range[2] <= 500
    /\ ~(ui_panicked /\ settings.target_range[2] < settings.target_range[1])
    /\ shown # None =>
          /\ shown[1].target_range_width[1] = 0
          /\ shown[1].target_range_width[2] <= 500

====
